---------------------------- MODULE Spec2Model ----------------------------
(***************************************************************************)
(* A model of server.js, the multi-user Twitch giveaway service: the       *)
(* EventSub webhook endpoint (body parsing, signature check, dispatch),    *)
(* the three in-memory maps (userSessions, activeGiveaways,                *)
(* userConnections), the Server-Sent-Events streams with their heartbeat   *)
(* timers, and the operator API that provisions, starts and stops a        *)
(* giveaway.                                                               *)
(*                                                                         *)
(* JavaScript values are represented as follows.  A string is a TLA+       *)
(* string and + on strings is \o.  An object is a record whose DOMAIN is   *)
(* the set of its own properties: a property that is undefined is a field  *)
(* that is missing.  A value that may be undefined and is stored in a      *)
(* fixed-shape record (a header, session.rewardId) is a sequence of        *)
(* length at most one: << >> is undefined.                                 *)
(***************************************************************************)
EXTENDS Naturals, Integers, Sequences, FiniteSets, TLC

VARIABLES
    userSessions,     \* Map userId -> session          (server.js line 29)
    sessionOrder,     \* insertion order of the keys of userSessions
    activeGiveaways,  \* Map userId -> giveaway         (server.js line 31)
    userConnections,  \* Map userId -> Set of streams   (server.js line 30)
    streams,          \* the response objects ever opened: id -> userId
    heartbeats,       \* streams whose setInterval timer is running
    listening,        \* streams whose 'close' event has not fired yet
    inflight,         \* operator API requests suspended at an await
    pruned,           \* history: streams a broadcast pass removed
    shutdown,         \* the calls gracefulShutdown made, once it has run
    last              \* history: the operation handled by the last step

vars == <<userSessions, sessionOrder, activeGiveaways, userConnections,
          streams, heartbeats, listening, inflight, pruned, shutdown, last>>

-----------------------------------------------------------------------------
(* Bounds of the model. *)

\* streams opened in one run
MaxStreams == 2
\* entries one giveaway holds before the model stops sending redemptions
MaxEntries == 2
\* operator API requests suspended at the same time
MaxInflight == 1

\* tenant ids (broadcaster ids); streams may be opened for any of them
Users == {"u1", "u2"}
\* ids the upstream platform hands out, in the order it hands them out
RewardOrder == <<"r1", "r2">>
SubscriptionOrder == <<"s1", "s2">>
TokenOrder == <<"t1", "t2", "t3">>
RewardIds == {RewardOrder[i] : i \in DOMAIN RewardOrder}
SubscriptionIds == {SubscriptionOrder[i] : i \in DOMAIN SubscriptionOrder}
Tokens == {TokenOrder[i] : i \in DOMAIN TokenOrder}

\* the ids of order that are not in use: the first of them is handed out
\* next (any unused id would do; they differ in name only)
Fresh(order, used) ==
    LET free == SelectSeq(order, LAMBDA x : x \notin used)
    IN  IF free = << >> THEN {} ELSE {Head(free)}

None == << >>
Some(v) == <<v>>


-----------------------------------------------------------------------------
(* Text: string building, the JSON texts a sender can put in a body, and   *)
(* JSON.parse as the inverse of that encoding on the texts of the model.   *)

RECURSIVE JoinComma(_)
\* Array.prototype.join(",") on a sequence of strings
JoinComma(s) ==
    IF s = << >> THEN ""
    ELSE IF Len(s) = 1 THEN s[1]
    ELSE s[1] \o "," \o JoinComma(Tail(s))

\* the double quote of a JSON text, and the same quote escaped inside a
\* JSON string literal
Q == "\""
EQ == "\\\""

Str(s, q) == q \o s \o q
Field(n, t, q) == Str(n, q) \o ":" \o t

\* the string-valued properties of rec among order, as "name":"value" texts
StrFields(rec, order, q) ==
    LET present == SelectSeq(order, LAMBDA n : n \in DOMAIN rec)
    IN  [i \in 1..Len(present) |-> Field(present[i], Str(rec[present[i]], q), q)]

RewardText(r, q) ==
    "{" \o JoinComma(StrFields(r, <<"id">>, q)
          \o (IF "cost" \in DOMAIN r
                THEN <<Field("cost", ToString(r.cost), q)>> ELSE << >>)) \o "}"

EventText(e, q) ==
    "{" \o JoinComma(
          StrFields(e, <<"broadcaster_user_id", "id", "user_id", "user_name",
                         "redeemed_at">>, q)
          \o (IF "reward" \in DOMAIN e
                THEN <<Field("reward", RewardText(e.reward, q), q)>> ELSE << >>))
    \o "}"

SubscriptionText(s, q) ==
    "{" \o JoinComma(StrFields(s, <<"id", "type", "status">>, q)) \o "}"

\* the JSON text of a payload object p, written with quote q
Stringify(p, q) ==
    "{" \o JoinComma(
          StrFields(p, <<"challenge", "note">>, q)
          \o (IF "subscription" \in DOMAIN p
                THEN <<Field("subscription", SubscriptionText(p.subscription, q), q)>>
                ELSE << >>)
          \o (IF "event" \in DOMAIN p
                THEN <<Field("event", EventText(p.event, q), q)>> ELSE << >>))
    \o "}"

-----------------------------------------------------------------------------
(* The payloads a sender can deliver. *)

AddType == "channel.channel_points_custom_reward_redemption.add"
UpdateType == "channel.channel_points_custom_reward_redemption.update"
FollowType == "channel.follow"

\* who redeems: display name, participant id, redemption id, cost.  The
\* third one is participant p1 again, under a changed display name.
Redeemers ==
    { [user_name |-> "alice", user_id |-> "p1", id |-> "red-1", cost |-> 500],
      [user_name |-> "bob",   user_id |-> "p2", id |-> "red-2", cost |-> 100],
      [user_name |-> "alicia", user_id |-> "p1", id |-> "red-3", cost |-> 0] }

RedemptionEvent(b, r, p) ==
    [broadcaster_user_id |-> b, id |-> p.id, user_id |-> p.user_id,
     user_name |-> p.user_name, redeemed_at |-> "2025-01-01T00:00:00Z",
     reward |-> [id |-> r, cost |-> p.cost]]

Subscription(id, type, status) == [id |-> id, type |-> type, status |-> status]

AddPayloads ==
    { [subscription |-> Subscription("s1", AddType, "enabled"),
       event |-> RedemptionEvent(b, r, p)] :
         b \in Users, r \in RewardIds, p \in Redeemers }

\* a status change of redemption red-1, a follow, and a subtype the service
\* has never heard of
OtherPayloads ==
    { [subscription |-> Subscription("s1", t, "enabled"),
       event |-> [broadcaster_user_id |-> b, id |-> "red-1", user_id |-> "p1",
                  user_name |-> "alice"]] :
         b \in Users, t \in {UpdateType, FollowType, "channel.unknown"} }

\* a revocation carries the subscription alone; the last one has no id
RevocationPayloads ==
    { [subscription |-> Subscription(s, AddType, "authorization_revoked")] :
         s \in SubscriptionIds }
    \cup { [subscription |-> [type |-> AddType, status |-> "user_removed"]] }

ChallengePayloads ==
    { [challenge |-> c,
       subscription |-> Subscription("s1", AddType, "webhook_callback_verification_pending")] :
         c \in {"xyz123", "OK!"} }

\* valid JSON objects that lack what a handler reads: no subscription, and
\* a redemption without its reward object
MalformedPayloads ==
    { [note |-> "hello"],
      [subscription |-> Subscription("s1", AddType, "enabled"),
       event |-> [broadcaster_user_id |-> "u1", id |-> "red-1",
                  user_id |-> "p1", user_name |-> "alice"]] }

Payloads ==
    AddPayloads \cup OtherPayloads \cup RevocationPayloads
    \cup ChallengePayloads \cup MalformedPayloads

\* the JSON object texts of the model, each with the object it denotes
ParseTable ==
    [t \in {Stringify(p, Q) : p \in Payloads} |->
        CHOOSE p \in Payloads : Stringify(p, Q) = t]

\* JSON.parse(text): the value, or a SyntaxError
JsonParse(text) ==
    IF text \in DOMAIN ParseTable
    THEN [ok |-> TRUE, value |-> ParseTable[text]]
    ELSE [ok |-> FALSE]

\* the JSON text of an array holding one string, the string being itself
\* the JSON text of p
ArrayText(p) == "[" \o Str(Stringify(p, EQ), Q) \o "]"

ArrayTable ==
    [t \in {ArrayText(p) : p \in Payloads} |->
        CHOOSE p \in Payloads : ArrayText(p) = t]

-----------------------------------------------------------------------------
(* The request as the webhook handler sees it. *)

WEBHOOK_SECRET == "your-webhook-secret-123"

JsonType == "application/json"
TextType == "text/plain"

\* crypto.createHmac('sha256', key).update(msg).digest('hex'): a digest
\* that is different for different (key, msg), which is what HMAC-SHA256
\* is taken to be
Hmac(key, msg) == "hmac<" \o key \o ">(" \o msg \o ")"

\* req.body as the handler reads it, which is only ever through string
\* coercion (+ and JSON.parse): the strings it can coerce to, or err when
\* the parser passes an error to the error middleware.  express.json runs
\* first on every path and parses a JSON content type in strict mode, so an
\* object coerces to "[object Object]" and an array to its elements joined;
\* express.raw, mounted after it with the same content type, then finds the
\* body consumed.  Any other content type is left unparsed: req.body is {}
\* or undefined, depending on the body-parser release installed.
BodyParserMiddleware(ctype, raw) ==
    IF ctype = JsonType
    THEN IF raw \in DOMAIN ParseTable
         THEN [err |-> FALSE, strs |-> {"[object Object]"}]
         ELSE IF raw \in DOMAIN ArrayTable
         THEN [err |-> FALSE, strs |-> {JoinComma(<<Stringify(ArrayTable[raw], Q)>>)}]
         ELSE [err |-> TRUE, strs |-> {}]
    ELSE [err |-> FALSE, strs |-> {"[object Object]", "undefined"}]

\* !header: undefined or the empty string
Falsy(h) == h = None \/ h[1] = ""

\* lines 497-500
ExpectedSignature(messageId, timestamp, body) ==
    Hmac(WEBHOOK_SECRET, messageId \o timestamp \o body)

\* line 502, negated
SignatureMatches(messageId, timestamp, body, signature) ==
    ("sha256=" \o ExpectedSignature(messageId, timestamp, body)) = signature

-----------------------------------------------------------------------------
(* Maps, and what a handler does to them. *)

MapSet(m, k, v) == [x \in DOMAIN m \cup {k} |-> IF x = k THEN v ELSE m[x]]
MapDelete(m, k) == [x \in DOMAIN m \ {k} |-> m[x]]
EmptyMap == [x \in {} |-> {}]

\* no event serialized
NoEvent == [type |-> "none"]

\* one property of a new object literal: absent when its source is undefined
Prop(name, obj, from) ==
    IF from \in DOMAIN obj THEN [x \in {name} |-> obj[from]] ELSE EmptyMap

\* what a handler did: the maps it leaves, the event it serialized, the
\* streams whose write succeeded, the streams it removed, whether it threw
Effect(giveaways, conns, sent, to, dead, threw) ==
    [giveaways |-> giveaways, conns |-> conns, sent |-> sent, to |-> to,
     dead |-> dead, threw |-> threw]

RECURSIVE Ascending(_)
\* the members of a set of stream ids in the order they were added to their
\* Set, which is the order the streams were opened in
Ascending(S) ==
    IF S = {} THEN << >>
    ELSE LET m == CHOOSE x \in S : \A y \in S : x <= y
         IN  <<m>> \o Ascending(S \ {m})

\* one call on a stream
Call(name, stream) == [call |-> name, stream |-> stream]

RECURSIVE writeUntilThrow(_, _)
\* a loop without the try: the first write that throws ends it
writeUntilThrow(connections, fail) ==
    IF connections = << >> THEN << >>
    ELSE IF Head(connections) \in fail
    THEN <<Call("write throws", Head(connections))>>
    ELSE <<Call("write", Head(connections))>>
         \o writeUntilThrow(Tail(connections), fail)

RECURSIVE writeAll(_, _)
\* the loop of broadcastToUser, lines 466-472: one write per connection, a
\* throw being caught
writeAll(connections, fail) ==
    IF connections = << >> THEN << >>
    ELSE (IF Head(connections) \in fail
          THEN <<Call("write throws", Head(connections))>>
          ELSE <<Call("write", Head(connections))>>)
         \o writeAll(Tail(connections), fail)

\* the streams of the calls of name
StreamsOf(calls, name) ==
    {calls[i].stream : i \in {j \in DOMAIN calls : calls[j].call = name}}

\* a broadcast that writes to the streams of every tenant
broadcastToEveryone(giveaways, conns, userId, eventData, fail) ==
    LET all == UNION {conns[u] : u \in DOMAIN conns}
    IN  IF all = {}
        THEN Effect(giveaways, conns, NoEvent, {}, {}, FALSE)
        ELSE Effect(giveaways, [u \in DOMAIN conns |-> conns[u] \ fail],
                    eventData, all \ fail, all \cap fail, FALSE)

\* broadcastToUser(userId, eventData), the write throwing for the streams
\* of fail
broadcastToUser(giveaways, conns, userId, eventData, fail) ==
    IF userId \notin DOMAIN conns \/ conns[userId] = {}
    THEN Effect(giveaways, conns, NoEvent, {}, {}, FALSE)
    ELSE LET calls == writeAll(Ascending(conns[userId]), fail)
             deadConnections == StreamsOf(calls, "write throws")
         IN  Effect(giveaways,
                    [conns EXCEPT ![userId] = @ \ deadConnections],
                    eventData, StreamsOf(calls, "write"), deadConnections, FALSE)

\* the entry object of lines 560-567
EntryOf(eventData) ==
    Prop("username", eventData, "user_name")
    @@ Prop("user_id", eventData, "user_id")
    @@ Prop("redemption_id", eventData, "id")
    @@ Prop("reward_id", eventData.reward, "id")
    @@ Prop("reward_cost", eventData.reward, "cost")
    @@ Prop("redeemed_at", eventData, "redeemed_at")

Throws(giveaways, conns) == Effect(giveaways, conns, NoEvent, {}, {}, TRUE)
Returns(giveaways, conns) == Effect(giveaways, conns, NoEvent, {}, {}, FALSE)

\* giveaway.entries.unshift(entry)
entriesUnshift(giveaways, userId, entry) ==
    [giveaways EXCEPT ![userId].entries = <<entry>> \o @]

\* giveaway.entries.push(entry), line 569
entriesPush(giveaways, userId, entry) ==
    [giveaways EXCEPT ![userId].entries = Append(@, entry)]

\* a test that also refuses a redemption id that is already stored
isNewForCurrentReward(eventData, giveaway) ==
    /\ "id" \in DOMAIN eventData.reward
    /\ eventData.reward.id = giveaway.rewardId
    /\ \A i \in DOMAIN giveaway.entries :
         "id" \in DOMAIN eventData =>
            giveaway.entries[i].redemption_id # eventData.id

\* eventData.reward.id !== giveaway.rewardId, line 554, negated
isCurrentReward(eventData, giveaway) ==
    "id" \in DOMAIN eventData.reward /\ eventData.reward.id = giveaway.rewardId

\* a test that takes every subtype for a redemption
isAnySubtype(subscription) == TRUE

\* subscriptionType === 'channel.channel_points_custom_reward_redemption.add',
\* line 543
isRedemptionAdd(subscription) ==
    "type" \in DOMAIN subscription /\ subscription.type = AddType

\* a handler that pushes the entry twice
handleEventNotificationTwice(event, sessions, giveaways, conns, fail) ==
    IF "subscription" \notin DOMAIN event
    THEN Throws(giveaways, conns)       \* event.subscription.type
    ELSE IF ~ isRedemptionAdd(event.subscription)
    THEN Returns(giveaways, conns)
    ELSE IF "event" \notin DOMAIN event
    THEN Throws(giveaways, conns)       \* eventData.broadcaster_user_id
    ELSE LET eventData == event.event IN
    IF "broadcaster_user_id" \notin DOMAIN eventData
    THEN Returns(giveaways, conns)
    ELSE LET userId == eventData.broadcaster_user_id IN
    IF userId \notin DOMAIN giveaways \/ userId \notin DOMAIN sessions
    THEN Returns(giveaways, conns)
    ELSE IF "reward" \notin DOMAIN eventData
    THEN Throws(giveaways, conns)       \* eventData.reward.id
    ELSE IF ~ isCurrentReward(eventData, giveaways[userId])
    THEN Returns(giveaways, conns)
    ELSE LET entry == EntryOf(eventData)
             pushed == entriesPush(entriesPush(giveaways, userId, entry),
                                 userId, entry)
         IN  broadcastToUser(pushed, conns, userId,
                             [x \in {"type"} |-> "giveaway_entry"] @@ entry, fail)

\* handleEventNotification(event)
handleEventNotification(event, sessions, giveaways, conns, fail) ==
    IF "subscription" \notin DOMAIN event
    THEN Throws(giveaways, conns)       \* event.subscription.type
    ELSE IF ~ isRedemptionAdd(event.subscription)
    THEN Returns(giveaways, conns)
    ELSE IF "event" \notin DOMAIN event
    THEN Throws(giveaways, conns)       \* eventData.broadcaster_user_id
    ELSE LET eventData == event.event IN
    IF "broadcaster_user_id" \notin DOMAIN eventData
    THEN Returns(giveaways, conns)
    ELSE LET userId == eventData.broadcaster_user_id IN
    IF userId \notin DOMAIN giveaways \/ userId \notin DOMAIN sessions
    THEN Returns(giveaways, conns)
    ELSE IF "reward" \notin DOMAIN eventData
    THEN Throws(giveaways, conns)       \* eventData.reward.id
    ELSE IF ~ isCurrentReward(eventData, giveaways[userId])
    THEN Returns(giveaways, conns)
    ELSE LET entry == EntryOf(eventData)
             pushed == entriesPush(giveaways, userId, entry)
         IN  broadcastToUser(pushed, conns, userId,
                             [x \in {"type"} |-> "giveaway_entry"] @@ entry, fail)

\* a lookup that takes the first session there is, whatever it holds
FirstSession(order, sessions, sid) ==
    IF order = << >> THEN << >> ELSE <<Head(order)>>

\* the first key of userSessions, in insertion order, whose session holds
\* the subscription id sid (None: undefined); << >> when there is none
RECURSIVE FirstWithSubscription(_, _, _)
FirstWithSubscription(order, sessions, sid) ==
    IF order = << >> THEN << >>
    ELSE IF sessions[Head(order)].subscriptionId = sid THEN <<Head(order)>>
    ELSE FirstWithSubscription(Tail(order), sessions, sid)

\* a revocation handler that also stops the giveaway of the tenant it finds
handleSubscriptionRevocationStops(event, order, sessions, giveaways, conns, fail) ==
    IF "subscription" \notin DOMAIN event
    THEN Throws(giveaways, conns)
    ELSE LET sub == event.subscription
             sid == IF "id" \in DOMAIN sub THEN Some(sub.id) ELSE None
             hit == FirstWithSubscription(order, sessions, sid)
         IN  IF hit = << >> THEN Returns(giveaways, conns)
             ELSE broadcastToUser(
                      IF hit[1] \in DOMAIN giveaways
                      THEN [giveaways EXCEPT ![hit[1]].isActive = FALSE]
                      ELSE giveaways,
                      conns, hit[1],
                      [x \in {"type"} |-> "subscription_revoked"]
                      @@ Prop("reason", sub, "status"), fail)

\* a revocation handler that also deletes the giveaway of the tenant it
\* finds
handleSubscriptionRevocationDeletes(event, order, sessions, giveaways, conns, fail) ==
    IF "subscription" \notin DOMAIN event
    THEN Throws(giveaways, conns)
    ELSE LET sub == event.subscription
             sid == IF "id" \in DOMAIN sub THEN Some(sub.id) ELSE None
             hit == FirstWithSubscription(order, sessions, sid)
         IN  IF hit = << >> THEN Returns(giveaways, conns)
             ELSE broadcastToUser(
                      IF hit[1] \in DOMAIN giveaways
                      THEN MapDelete(giveaways, hit[1]) ELSE giveaways,
                      conns, hit[1],
                      [x \in {"type"} |-> "subscription_revoked"]
                      @@ Prop("reason", sub, "status"), fail)

\* handleSubscriptionRevocation(event)
handleSubscriptionRevocation(event, order, sessions, giveaways, conns, fail) ==
    IF "subscription" \notin DOMAIN event
    THEN Throws(giveaways, conns)       \* event.subscription.id
    ELSE LET sub == event.subscription
             sid == IF "id" \in DOMAIN sub THEN Some(sub.id) ELSE None
             hit == FirstWithSubscription(order, sessions, sid)
         IN  IF hit = << >> THEN Returns(giveaways, conns)
             ELSE broadcastToUser(giveaways, conns, hit[1],
                      [x \in {"type"} |-> "subscription_revoked"]
                      @@ Prop("reason", sub, "status"), fail)

\* a response of POST /webhook/eventsub, with what the handler did on the
\* way to it
Response(status, text, eff) == [status |-> status, body |-> text, eff |-> eff]

\* the error-handling middleware of lines 649-655
ErrorMiddleware(giveaways, conns) ==
    Response(500, "Internal server error", Returns(giveaways, conns))

\* a switch that acknowledges a challenge instead of echoing it
DispatchAcknowledges(messageType, event, order, sessions, giveaways, conns, fail) ==
    LET eff ==
        IF messageType = Some("notification")
        THEN handleEventNotification(event, sessions, giveaways, conns, fail)
        ELSE IF messageType = Some("revocation")
        THEN handleSubscriptionRevocation(event, order, sessions, giveaways,
                                          conns, fail)
        ELSE Returns(giveaways, conns)
    IN  IF eff.threw THEN ErrorMiddleware(giveaways, conns)
        ELSE Response(200, "OK", eff)

\* the switch on the message type, lines 515-535
Dispatch(messageType, event, order, sessions, giveaways, conns, fail) ==
    IF messageType = Some("webhook_callback_verification")
    THEN Response(200, IF "challenge" \in DOMAIN event THEN event.challenge ELSE "",
                  Returns(giveaways, conns))
    ELSE LET eff ==
             IF messageType = Some("notification")
             THEN handleEventNotification(event, sessions, giveaways, conns, fail)
             ELSE IF messageType = Some("revocation")
             THEN handleSubscriptionRevocation(event, order, sessions, giveaways,
                                               conns, fail)
             ELSE Returns(giveaways, conns)
         IN  IF eff.threw THEN ErrorMiddleware(giveaways, conns)
             ELSE Response(200, "OK", eff)

\* a handler that verifies the signature only after it has dispatched
EventsubHandlerVerifiesLate(req, body, order, sessions, giveaways, conns, fail) ==
    IF Falsy(req.messageId) \/ Falsy(req.timestamp) \/ Falsy(req.signature)
    THEN Response(400, "Missing required headers", Returns(giveaways, conns))
    ELSE LET parsed == JsonParse(body) IN
    IF ~ parsed.ok
    THEN Response(400, "Invalid JSON", Returns(giveaways, conns))
    ELSE LET done == Dispatch(req.messageType, parsed.value, order, sessions,
                              giveaways, conns, fail) IN
    IF ~ SignatureMatches(req.messageId[1], req.timestamp[1], body,
                          req.signature[1])
    THEN Response(403, "Invalid signature", done.eff)
    ELSE done

\* the handler of POST /webhook/eventsub, lines 480-536
EventsubHandler(req, body, order, sessions, giveaways, conns, fail) ==
    IF Falsy(req.messageId) \/ Falsy(req.timestamp) \/ Falsy(req.signature)
    THEN Response(400, "Missing required headers", Returns(giveaways, conns))
    ELSE IF ~ SignatureMatches(req.messageId[1], req.timestamp[1], body,
                               req.signature[1])
    THEN Response(403, "Invalid signature", Returns(giveaways, conns))
    ELSE LET parsed == JsonParse(body) IN
    IF ~ parsed.ok
    THEN Response(400, "Invalid JSON", Returns(giveaways, conns))
    ELSE Dispatch(req.messageType, parsed.value, order, sessions, giveaways,
                  conns, fail)

-----------------------------------------------------------------------------
(* The history variable last. *)

NoReq ==
    [messageId |-> None, timestamp |-> None, signature |-> None,
     messageType |-> None, ctype |-> "", raw |-> ""]

\* op: the operation; user: the tenant an API or stream operation names;
\* stream: the stream a stream operation is about (0: none); status: the
\* response status (0: none sent); body: the response text of the webhook;
\* json: the JSON value an API answers with; sent, to: the event written
\* and the streams whose write succeeded; req, str: the webhook request and
\* the string its body coerced to
Op(op, user, stream, status, body, json, sent, to, req, str) ==
    [op |-> op, user |-> user, stream |-> stream, status |-> status,
     body |-> body, json |-> json, sent |-> sent, to |-> to, req |-> req,
     str |-> str]

NoJson == [x \in {} |-> {}]

\* between two operations: nothing is being observed
Idle == Op("idle", "", 0, 0, "", NoJson, NoEvent, {}, NoReq, "")

\* an operator API response
ApiOp(op, user, status, json) ==
    Op(op, user, 0, status, "", json, NoEvent, {}, NoReq, "")

\* an operation on one stream
StreamOp(op, stream, sent, to) ==
    Op(op, streams[stream], stream, 0, "", NoJson, sent, to, NoReq, "")

-----------------------------------------------------------------------------
(* The webhook requests of the model. *)

Request(messageId, timestamp, signature, messageType, ctype, raw) ==
    [messageId |-> messageId, timestamp |-> timestamp, signature |-> signature,
     messageType |-> messageType, ctype |-> ctype, raw |-> raw]

\* the signature header a holder of the secret computes over text
Sign(messageId, timestamp, text) ==
    "sha256=" \o Hmac(WEBHOOK_SECRET, messageId \o timestamp \o text)

\* the message types a payload is delivered under
TypesFor(p) ==
    IF p \in ChallengePayloads THEN {Some("webhook_callback_verification")}
    ELSE IF p \in RevocationPayloads THEN {Some("revocation"), Some("notification")}
    ELSE IF p = [note |-> "hello"]
    THEN {Some("notification"), Some("revocation"),
          Some("webhook_callback_verification"), Some("bogus"), None}
    ELSE {Some("notification")}

\* requests that reach the dispatcher: the body is a JSON array holding the
\* payload's JSON text as its one string, and the signature is computed
\* over the text that array coerces to
DispatchRequests ==
    UNION { { Request(Some("m1"), Some("2025"),
                      Some(Sign("m1", "2025", Stringify(p, Q))), t, JsonType,
                      ArrayText(p)) : t \in TypesFor(p) } : p \in Payloads }

\* a redemption of reward r1 of tenant u1 by alice
AlicePayload ==
    [subscription |-> Subscription("s1", AddType, "enabled"),
     event |-> RedemptionEvent("u1", "r1",
                 [user_name |-> "alice", user_id |-> "p1", id |-> "red-1",
                  cost |-> 500])]

\* requests as the upstream platform sends them: the body is the payload's
\* JSON text and the signature is computed over that text
PlatformRequests ==
    { Request(Some("m1"), Some("2025"),
              Some(Sign("m1", "2025", Stringify(p, Q))), t, JsonType,
              Stringify(p, Q)) :
        p \in {AlicePayload} \cup ChallengePayloads,
        t \in {Some("notification"), Some("webhook_callback_verification")} }

\* requests that are refused
RefusedRequests ==
    { Request(None, Some("2025"), Some(Sign("m1", "2025", Stringify(AlicePayload, Q))),
              Some("notification"), JsonType, ArrayText(AlicePayload)),
      Request(Some("m1"), Some("2025"), Some("sha256=00"),
              Some("notification"), JsonType, ArrayText(AlicePayload)),
      Request(Some("m1"), Some("2025"), Some(Sign("m1", "2025", "not json")),
              Some("notification"), JsonType, "not json"),
      Request(Some("m1"), Some("2025"), Some(Sign("m1", "2025", "[object Object]")),
              Some("notification"), TextType, Stringify(AlicePayload, Q)) }

\* the same redemption by bob
BobPayload ==
    [subscription |-> Subscription("s1", AddType, "enabled"),
     event |-> RedemptionEvent("u1", "r1",
                 [user_name |-> "bob", user_id |-> "p2", id |-> "red-2",
                  cost |-> 100])]

\* the header values and bodies the signature check is tried on: every
\* combination of a message id, a timestamp, a body and a signature header,
\* the signature being absent, empty, garbage, a digest without its prefix,
\* or the signature of some (id, timestamp, text)
VerifierIds == {None, Some(""), Some("m1"), Some("m12")}
VerifierTimestamps == {None, Some("2025"), Some("22025")}
VerifierBodies ==
    { <<JsonType, ArrayText(AlicePayload)>>, <<JsonType, ArrayText(BobPayload)>>,
      <<JsonType, Stringify(AlicePayload, Q)>>, <<JsonType, Stringify(BobPayload, Q)>>,
      <<JsonType, "not json">>, <<TextType, Stringify(AlicePayload, Q)>> }
VerifierTexts ==
    { Stringify(AlicePayload, Q), Stringify(BobPayload, Q), ArrayText(AlicePayload),
      "[object Object]", "not json" }
VerifierSignatures ==
    { None, Some(""), Some("sha256=00"),
      Some(Hmac(WEBHOOK_SECRET, "m1" \o "2025" \o Stringify(AlicePayload, Q))) }
    \cup { Some(Sign(i, t, x)) :
              i \in {"m1", "m12"}, t \in {"2025", "22025"}, x \in VerifierTexts }
VerifierRequests ==
    { Request(i, t, g, mt, b[1], b[2]) :
        i \in VerifierIds, t \in VerifierTimestamps, g \in VerifierSignatures,
        mt \in {None, Some("notification")}, b \in VerifierBodies }

-----------------------------------------------------------------------------
(* The state after the module is loaded: three empty maps. *)

Init ==
    /\ userSessions = EmptyMap
    /\ sessionOrder = << >>
    /\ activeGiveaways = EmptyMap
    /\ userConnections = EmptyMap
    /\ streams = << >>
    /\ heartbeats = {}
    /\ listening = {}
    /\ inflight = {}
    /\ pruned = {}
    /\ shutdown = None
    /\ last = Idle

-----------------------------------------------------------------------------
(* POST /webhook/eventsub, for the requests of reqs. *)

WebhookEventsub(reqs) ==
    /\ last = Idle
    /\ UNCHANGED shutdown
    /\ \E req \in reqs :
      LET parser == BodyParserMiddleware(req.ctype, req.raw) IN
      IF parser.err
      THEN /\ last' = Op("webhook", "", 0, 500, "Internal server error", NoJson,
                         NoEvent, {}, req, "")
           /\ UNCHANGED <<userSessions, sessionOrder, activeGiveaways,
                          userConnections, streams, heartbeats, listening,
                          inflight, pruned>>
      ELSE \E body \in parser.strs, fail \in SUBSET (DOMAIN streams) :
           \E res \in {EventsubHandler(req, body, sessionOrder, userSessions,
                                       activeGiveaways, userConnections, fail)} :
             /\ fail = res.eff.dead
             /\ \A u \in DOMAIN res.eff.giveaways :
                    Len(res.eff.giveaways[u].entries) <= MaxEntries
             /\ activeGiveaways' = res.eff.giveaways
             /\ userConnections' = res.eff.conns
             /\ pruned' = pruned \cup res.eff.dead
             /\ last' = Op("webhook", "", 0, res.status, res.body, NoJson,
                           res.eff.sent, res.eff.to, req, body)
             /\ UNCHANGED <<userSessions, sessionOrder, streams, heartbeats,
                            listening, inflight>>

-----------------------------------------------------------------------------
(* GET /events/:userId and the life of one stream. *)

\* the handler of GET /events/:userId; the first write, made right after
\* the headers, is taken to succeed
EventsOpen(U) ==
    /\ last = Idle
    /\ UNCHANGED shutdown
    /\ \E userId \in U :
      LET res == Len(streams) + 1 IN
      /\ Len(streams) < MaxStreams
      /\ streams' = Append(streams, userId)
      /\ userConnections' =
            MapSet(userConnections, userId,
                   (IF userId \in DOMAIN userConnections
                    THEN userConnections[userId] ELSE {}) \cup {res})
      /\ heartbeats' = heartbeats \cup {res}
      /\ listening' = listening \cup {res}
      /\ last' = Op("open", userId, res, 200, "", NoJson,
                    [type |-> "connection_status", status |-> "connected"],
                    {res}, NoReq, "")
      /\ UNCHANGED <<userSessions, sessionOrder, activeGiveaways, inflight, pruned>>

\* a timer that fires once, as setTimeout would
timerAfterOneShot(timers, res, throws) == timers \ {res}

\* the timers left running by one tick: setInterval keeps the timer, the
\* catch branch clears it
timerAfterTick(timers, res, throws) ==
    IF throws THEN timers \ {res} ELSE timers

\* one tick of the setInterval callback of stream res; the write throws or
\* does not
Heartbeat(res) ==
    /\ last = Idle
    /\ UNCHANGED shutdown
    /\ res \in heartbeats
    /\ \E throws \in BOOLEAN :
      /\ heartbeats' = timerAfterTick(heartbeats, res, throws)
      /\ last' = StreamOp("heartbeat", res, [type |-> "heartbeat"],
                          IF throws THEN {} ELSE {res})
      /\ UNCHANGED <<userSessions, sessionOrder, activeGiveaways,
                     userConnections, streams, listening, inflight, pruned>>

\* a tick of any running timer
HeartbeatTick == \E res \in 1..MaxStreams : Heartbeat(res)

\* a close handler that forgets clearInterval
EventsCloseLeavesTimer ==
    /\ last = Idle
    /\ UNCHANGED shutdown
    /\ \E res \in listening :
      LET userId == streams[res] IN
      /\ listening' = listening \ {res}
      /\ heartbeats' = heartbeats
      /\ userConnections' =
            IF userId \in DOMAIN userConnections
            THEN IF userConnections[userId] \ {res} = {}
                 THEN MapDelete(userConnections, userId)
                 ELSE [userConnections EXCEPT ![userId] = @ \ {res}]
            ELSE userConnections
      /\ last' = StreamOp("close", res, NoEvent, {})
      /\ UNCHANGED <<userSessions, sessionOrder, activeGiveaways, streams,
                     inflight, pruned>>

\* the 'close' event of the request of stream res
EventsClose ==
    /\ last = Idle
    /\ UNCHANGED shutdown
    /\ \E res \in listening :
      LET userId == streams[res] IN
      /\ listening' = listening \ {res}
      /\ heartbeats' = heartbeats \ {res}
      /\ userConnections' =
            IF userId \in DOMAIN userConnections
            THEN IF userConnections[userId] \ {res} = {}
                 THEN MapDelete(userConnections, userId)
                 ELSE [userConnections EXCEPT ![userId] = @ \ {res}]
            ELSE userConnections
      /\ last' = StreamOp("close", res, NoEvent, {})
      /\ UNCHANGED <<userSessions, sessionOrder, activeGiveaways, streams,
                     inflight, pruned>>

-----------------------------------------------------------------------------
(* The operator API.  A handler that awaits the upstream platform is two   *)
(* steps: up to the first await, and from the answer on.  In between it    *)
(* holds the session object it looked up, which is named here by its       *)
(* access token.                                                           *)

\* ids in use, which the upstream platform does not hand out again
TokensInUse ==
    {userSessions[u].accessToken : u \in DOMAIN userSessions}
    \cup {r.tok : r \in inflight}
RewardsInUse ==
    {activeGiveaways[u].rewardId : u \in DOMAIN activeGiveaways}
    \cup UNION {{userSessions[u].rewardId[i] : i \in DOMAIN userSessions[u].rewardId} :
                u \in DOMAIN userSessions}
SubscriptionsInUse ==
    UNION {{userSessions[u].subscriptionId[i] :
              i \in DOMAIN userSessions[u].subscriptionId} :
           u \in DOMAIN userSessions}

Awaiting(op, user, tok, enable) ==
    [op |-> op, user |-> user, tok |-> tok, enable |-> enable]

\* session && session.accessToken === access_token
ValidSession(user, tok) ==
    user \in DOMAIN userSessions /\ userSessions[user].accessToken = tok

\* POST /api/oauth/exchange: the platform answers with the tokens and the
\* user, or an exchange fails
OauthExchange(U) ==
    /\ last = Idle
    /\ UNCHANGED shutdown
    /\ \E userId \in U :
      \/ \E tok \in Fresh(TokenOrder, TokensInUse) :
           /\ userSessions' =
                 MapSet(userSessions, userId,
                        [accessToken |-> tok, rewardId |-> None,
                         subscriptionId |-> None])
           /\ sessionOrder' = IF userId \in DOMAIN userSessions THEN sessionOrder
                              ELSE Append(sessionOrder, userId)
           /\ last' = ApiOp("oauth", userId, 200, NoJson)
           /\ UNCHANGED <<activeGiveaways, userConnections, streams, heartbeats,
                          listening, inflight, pruned>>
      \/ /\ last' = ApiOp("oauth", userId, 500, NoJson)
         /\ UNCHANGED <<userSessions, sessionOrder, activeGiveaways,
                        userConnections, streams, heartbeats, listening,
                        inflight, pruned>>

\* an API handler up to its first await: 401 without a valid session
ApiBegin(op, userId, tok, enable) ==
    IF ~ ValidSession(userId, tok)
    THEN /\ last' = ApiOp(op, userId, 401, NoJson)
         /\ UNCHANGED inflight
    ELSE /\ Cardinality(inflight) < MaxInflight
         /\ inflight' = inflight \cup {Awaiting(op, userId, tok, enable)}
         /\ last' = ApiOp(op, userId, 0, NoJson)

\* POST /api/rewards/create, lines 220-254
RewardsCreateBegin(U) ==
    /\ last = Idle
    /\ UNCHANGED shutdown
    /\ \E userId \in U, tok \in Tokens :
      /\ ApiBegin("create", userId, tok, FALSE)
      /\ UNCHANGED <<userSessions, sessionOrder, activeGiveaways,
                     userConnections, streams, heartbeats, listening, pruned>>

\* POST /api/rewards/create, lines 256-287
RewardsCreateEnd ==
    /\ last = Idle
    /\ UNCHANGED shutdown
    /\ \E r \in inflight :
      /\ r.op = "create"
      /\ inflight' = inflight \ {r}
      /\ \/ \E rewardId \in Fresh(RewardOrder, RewardsInUse) :
              /\ userSessions' =
                    IF ValidSession(r.user, r.tok)
                    THEN [userSessions EXCEPT ![r.user].rewardId = Some(rewardId)]
                    ELSE userSessions
              /\ activeGiveaways' =
                    MapSet(activeGiveaways, r.user,
                           [isActive |-> FALSE, entries |-> << >>,
                            rewardId |-> rewardId])
              /\ last' = ApiOp("create", r.user, 200, [reward_id |-> rewardId])
         \/ /\ last' = ApiOp("create", r.user, 500, NoJson)
            /\ UNCHANGED <<userSessions, activeGiveaways>>
      /\ UNCHANGED <<sessionOrder, userConnections, streams, heartbeats,
                     listening, pruned>>

\* POST /api/webhooks/subscribe, lines 292-326
WebhooksSubscribeBegin(U) ==
    /\ last = Idle
    /\ UNCHANGED shutdown
    /\ \E userId \in U, tok \in Tokens :
      /\ ApiBegin("subscribe", userId, tok, FALSE)
      /\ UNCHANGED <<userSessions, sessionOrder, activeGiveaways,
                     userConnections, streams, heartbeats, listening, pruned>>

\* POST /api/webhooks/subscribe, lines 328-347
WebhooksSubscribeEnd ==
    /\ last = Idle
    /\ UNCHANGED shutdown
    /\ \E r \in inflight :
      /\ r.op = "subscribe"
      /\ inflight' = inflight \ {r}
      /\ \/ \E sid \in Fresh(SubscriptionOrder, SubscriptionsInUse) :
              /\ userSessions' =
                    IF ValidSession(r.user, r.tok)
                    THEN [userSessions EXCEPT ![r.user].subscriptionId = Some(sid)]
                    ELSE userSessions
              /\ last' = ApiOp("subscribe", r.user, 200, [subscription_id |-> sid])
         \/ /\ last' = ApiOp("subscribe", r.user, 500, NoJson)
            /\ UNCHANGED userSessions
      /\ UNCHANGED <<sessionOrder, activeGiveaways, userConnections, streams,
                     heartbeats, listening, pruned>>

\* POST /api/rewards/:action, lines 352-381
RewardsActionBegin(U) ==
    /\ last = Idle
    /\ UNCHANGED shutdown
    /\ \E userId \in U, tok \in Tokens, action \in {"enable", "disable", "pause"} :
      /\ IF action \notin {"enable", "disable"}
         THEN /\ last' = ApiOp("action", userId, 400, NoJson)
              /\ UNCHANGED inflight
         ELSE ApiBegin("action", userId, tok, action = "enable")
      /\ UNCHANGED <<userSessions, sessionOrder, activeGiveaways,
                     userConnections, streams, heartbeats, listening, pruned>>

\* a start that also empties the entries
setActiveAfresh(giveaways, userId, isEnabled) ==
    IF userId \in DOMAIN giveaways
    THEN [giveaways EXCEPT ![userId].isActive = isEnabled,
                           ![userId].entries = IF isEnabled THEN << >> ELSE @]
    ELSE giveaways

\* if (giveaway) giveaway.isActive = isEnabled, lines 388-392
setActive(giveaways, userId, isEnabled) ==
    IF userId \in DOMAIN giveaways
    THEN [giveaways EXCEPT ![userId].isActive = isEnabled]
    ELSE giveaways

\* POST /api/rewards/:action, lines 383-401
RewardsActionEnd ==
    /\ last = Idle
    /\ UNCHANGED shutdown
    /\ \E r \in inflight :
      /\ r.op = "action"
      /\ inflight' = inflight \ {r}
      /\ \/ /\ activeGiveaways' = setActive(activeGiveaways, r.user, r.enable)
            /\ last' = ApiOp("action", r.user, 200, [enabled |-> r.enable])
         \/ /\ last' = ApiOp("action", r.user, 500, NoJson)
            /\ UNCHANGED activeGiveaways
      /\ UNCHANGED <<userSessions, sessionOrder, userConnections, streams,
                     heartbeats, listening, pruned>>

\* the sum of e.reward_cost || 0 over entries
RECURSIVE TotalPoints(_)
TotalPoints(entries) ==
    IF entries = << >> THEN 0
    ELSE (IF "reward_cost" \in DOMAIN Head(entries)
          THEN Head(entries).reward_cost ELSE 0) + TotalPoints(Tail(entries))

\* new Set(entries.map(e => e.username)).size: an entry without a username
\* maps to undefined, which is one more member of the set
UniqueUsers(entries) ==
    Cardinality({ IF "username" \in DOMAIN entries[i]
                  THEN Some(entries[i].username) ELSE None :
                  i \in DOMAIN entries })

\* entries.slice(-20)
LastTwenty(entries) ==
    SubSeq(entries, IF Len(entries) > 20 THEN Len(entries) - 19 ELSE 1,
           Len(entries))

\* the body of GET /api/giveaway/:userId/stats
StatsJson(giveaway) ==
    [isActive |-> giveaway.isActive,
     totalEntries |-> Len(giveaway.entries),
     uniqueUsers |-> UniqueUsers(giveaway.entries),
     totalPointsSpent |-> TotalPoints(giveaway.entries),
     entries |-> LastTwenty(giveaway.entries)]

\* GET /api/giveaway/:userId/stats
GiveawayStats(U) ==
    /\ last = Idle
    /\ UNCHANGED shutdown
    /\ \E userId \in U :
      /\ last' = IF userId \notin DOMAIN activeGiveaways
                 THEN ApiOp("stats", userId, 404, NoJson)
                 ELSE ApiOp("stats", userId, 200, StatsJson(activeGiveaways[userId]))
      /\ UNCHANGED <<userSessions, sessionOrder, activeGiveaways,
                     userConnections, streams, heartbeats, listening,
                     inflight, pruned>>

\* POST /api/cleanup/:userId (NODE_ENV is 'development' unless set)
Cleanup(U) ==
    /\ last = Idle
    /\ UNCHANGED shutdown
    /\ \E userId \in U :
      /\ userSessions' = MapDelete(userSessions, userId)
      /\ sessionOrder' = SelectSeq(sessionOrder, LAMBDA u : u # userId)
      /\ activeGiveaways' = MapDelete(activeGiveaways, userId)
      /\ userConnections' = MapDelete(userConnections, userId)
      /\ last' = ApiOp("cleanup", userId, 200, NoJson)
      /\ UNCHANGED <<streams, heartbeats, listening, inflight, pruned>>

-----------------------------------------------------------------------------
(* SIGTERM / SIGINT. *)

\* the orders a Map with the keys of S can iterate in
Orders(S) ==
    { f \in [1..Cardinality(S) -> S] : \A x \in S : \E i \in DOMAIN f : f[i] = x }

RECURSIVE ConnectionCalls(_, _)
\* the inner loop of gracefulShutdown, lines 703-710: write, then end; a
\* write that throws skips the end
ConnectionCalls(connections, fail) ==
    IF connections = << >> THEN << >>
    ELSE (IF Head(connections) \in fail
          THEN <<Call("write throws", Head(connections))>>
          ELSE <<Call("write", Head(connections)), Call("end", Head(connections))>>)
         \o ConnectionCalls(Tail(connections), fail)

RECURSIVE ShutdownCalls(_, _, _)
\* the outer loop of gracefulShutdown, lines 697-711
ShutdownCalls(order, conns, fail) ==
    IF order = << >> THEN << >>
    ELSE ConnectionCalls(Ascending(conns[Head(order)]), fail)
         \o ShutdownCalls(Tail(order), conns, fail)

\* gracefulShutdown(signal), up to server.close(); the process exits when
\* the last connection is gone or after 10 s, so a second signal is not
\* modelled
GracefulShutdown ==
    /\ last = Idle
    /\ shutdown = None
    /\ \E order \in Orders(DOMAIN userConnections),
          fail \in SUBSET UNION {userConnections[u] : u \in DOMAIN userConnections} :
        LET calls == ShutdownCalls(order, userConnections, fail) IN
        /\ shutdown' = Some(calls)
        /\ last' = Op("shutdown", "", 0, 0, "", NoJson,
                      [type |-> "server_shutdown",
                       message |-> "Server is restarting, please refresh the page"],
                      {calls[i].stream : i \in {j \in DOMAIN calls :
                                                calls[j].call = "write"}},
                      NoReq, "")
    /\ UNCHANGED <<userSessions, sessionOrder, activeGiveaways, userConnections,
                   streams, heartbeats, listening, inflight, pruned>>

-----------------------------------------------------------------------------

\* The history of the last operation is dropped before the next operation
\* is handled: a step that changes no variable of the program.
Forget ==
    /\ last # Idle
    /\ last' = Idle
    /\ UNCHANGED <<userSessions, sessionOrder, activeGiveaways, userConnections,
                   streams, heartbeats, listening, inflight, pruned, shutdown>>

Requests == DispatchRequests \cup PlatformRequests \cup RefusedRequests

Next ==
    \/ Forget
    \/ WebhookEventsub(Requests)
    \/ EventsOpen(Users)
    \/ HeartbeatTick
    \/ EventsClose
    \/ OauthExchange(Users)
    \/ RewardsCreateBegin(Users)
    \/ RewardsCreateEnd
    \/ WebhooksSubscribeBegin(Users)
    \/ WebhooksSubscribeEnd
    \/ RewardsActionBegin(Users)
    \/ RewardsActionEnd
    \/ GiveawayStats(Users)
    \/ Cleanup(Users)
    \/ GracefulShutdown

Spec == Init /\ [][Next]_vars

\* one tenant, its giveaway and the notifications about it
CampaignNext ==
    \/ Forget
    \/ WebhookEventsub(DispatchRequests)
    \/ OauthExchange({"u1"})
    \/ RewardsCreateBegin({"u1"})
    \/ RewardsCreateEnd
    \/ RewardsActionBegin({"u1"})
    \/ RewardsActionEnd
    \/ GiveawayStats({"u1"})

CampaignSpec == Init /\ [][CampaignNext]_vars

\* the webhook endpoint alone, on the requests of VerifierRequests
VerifierNext ==
    \/ Forget
    \/ WebhookEventsub(VerifierRequests)

VerifierSpec == Init /\ [][VerifierNext]_vars

\* the requests of EndpointSpec: alice's redemption, the notifications of
\* other subtypes for u1 and a challenge as they reach the dispatcher, the
\* redemption and the challenge as the platform sends them, and the refused
\* ones
EndpointRequests ==
    { r \in DispatchRequests :
        r.raw \in {ArrayText(p) : p \in {AlicePayload} \cup ChallengePayloads
                      \cup {o \in OtherPayloads : o.event.broadcaster_user_id = "u1"}} }
    \cup PlatformRequests \cup RefusedRequests

\* one tenant with its session, its giveaway and its streams, and the
\* webhook endpoint
EndpointNext ==
    \/ Forget
    \/ WebhookEventsub(EndpointRequests)
    \/ OauthExchange({"u1"})
    \/ RewardsCreateBegin({"u1"})
    \/ RewardsCreateEnd
    \/ EventsOpen({"u1"})
    \/ HeartbeatTick
    \/ EventsClose

EndpointSpec == Init /\ [][EndpointNext]_vars

\* the revocations, as they reach the dispatcher
RevocationRequests ==
    { r \in DispatchRequests : r.raw \in {ArrayText(p) : p \in RevocationPayloads} }

\* two tenants with their sessions, subscriptions and streams, and the
\* revocations of their subscriptions
StreamNext ==
    \/ Forget
    \/ WebhookEventsub(RevocationRequests)
    \/ EventsOpen(Users)
    \/ HeartbeatTick
    \/ EventsClose
    \/ OauthExchange(Users)
    \/ WebhooksSubscribeBegin(Users)
    \/ WebhooksSubscribeEnd

StreamSpec == Init /\ [][StreamNext]_vars

\* the streams of two tenants, the administrative cleanup and the shutdown
ShutdownNext ==
    \/ Forget
    \/ EventsOpen(Users)
    \/ HeartbeatTick
    \/ EventsClose
    \/ Cleanup(Users)
    \/ GracefulShutdown

ShutdownSpec == Init /\ [][ShutdownNext]_vars

\* alice's redemptions, for either tenant and either reward, as they reach
\* the dispatcher
AliceRequests ==
    { r \in DispatchRequests :
        r.raw \in {ArrayText(p) : p \in {a \in AddPayloads :
                                           a.event.user_name = "alice"}} }

\* two tenants with their sessions, giveaways and streams, and alice's
\* redemptions
TenantsNext ==
    \/ Forget
    \/ WebhookEventsub(AliceRequests)
    \/ OauthExchange(Users)
    \/ RewardsCreateBegin(Users)
    \/ RewardsCreateEnd
    \/ EventsOpen(Users)

TenantsSpec == Init /\ [][TenantsNext]_vars

\* one tenant, its giveaway, the notifications about it and the
\* administrative cleanup
LifecycleNext ==
    \/ Forget
    \/ WebhookEventsub(DispatchRequests)
    \/ OauthExchange({"u1"})
    \/ RewardsCreateBegin({"u1"})
    \/ RewardsCreateEnd
    \/ RewardsActionBegin({"u1"})
    \/ RewardsActionEnd
    \/ Cleanup({"u1"})

LifecycleSpec == Init /\ [][LifecycleNext]_vars

\* everything that touches a stream: opening, heartbeat, close, the
\* broadcast of a revocation, the administrative cleanup and the shutdown
ConnectionNext ==
    \/ Forget
    \/ EventsOpen(Users)
    \/ HeartbeatTick
    \/ EventsClose
    \/ OauthExchange(Users)
    \/ WebhookEventsub(RevocationRequests)
    \/ Cleanup(Users)
    \/ GracefulShutdown

ConnectionSpec == Init /\ [][ConnectionNext]_vars

\* the streams of one tenant with their timers, next to the dispatcher
\* that broadcasts to them
HeartbeatNext ==
    \/ Forget
    \/ EventsOpen({"u1"})
    \/ HeartbeatTick
    \/ EventsClose
    \/ OauthExchange({"u1"})
    \/ WebhookEventsub(RevocationRequests)

\* the event loop runs every callback that is due: a timer that keeps
\* being due fires again and again, and a handler that has started returns
HeartbeatFairness ==
    /\ WF_vars(Forget)
    /\ \A res \in 1..MaxStreams : SF_vars(Heartbeat(res))

HeartbeatSpec == Init /\ [][HeartbeatNext]_vars /\ HeartbeatFairness

\* two tenants with their sessions and streams: u1 provisions a giveaway
\* and takes alice's redemptions, u2 registers a subscription that is then
\* revoked
IsolationNext ==
    \/ Forget
    \/ WebhookEventsub(AliceRequests \cup RevocationRequests)
    \/ OauthExchange(Users)
    \/ RewardsCreateBegin({"u1"})
    \/ RewardsCreateEnd
    \/ WebhooksSubscribeBegin({"u2"})
    \/ WebhooksSubscribeEnd
    \/ EventsOpen(Users)
    \/ EventsClose

IsolationSpec == Init /\ [][IsolationNext]_vars

\* alice's redemptions for tenant u1, of either reward, and the
\* revocations, as they reach the dispatcher
ProvisionedRequests ==
    { r \in AliceRequests :
        ArrayTable[r.raw].event.broadcaster_user_id = "u1" }
    \cup RevocationRequests

\* one tenant that authorizes, provisions a reward, registers a
\* subscription, starts and stops, with a stream, the redemptions and the
\* revocations
ProvisionedNext ==
    \/ Forget
    \/ WebhookEventsub(ProvisionedRequests)
    \/ OauthExchange({"u1"})
    \/ RewardsCreateBegin({"u1"})
    \/ RewardsCreateEnd
    \/ WebhooksSubscribeBegin({"u1"})
    \/ WebhooksSubscribeEnd
    \/ RewardsActionBegin({"u1"})
    \/ RewardsActionEnd
    \/ EventsOpen({"u1"})

ProvisionedSpec == Init /\ [][ProvisionedNext]_vars

-----------------------------------------------------------------------------
(* What a step was, read off the history variable. *)

\* l is a webhook request that passed the header check, the signature check
\* and JSON.parse
Admitted(l) ==
    /\ l.op = "webhook"
    /\ ~ BodyParserMiddleware(l.req.ctype, l.req.raw).err
    /\ ~ (Falsy(l.req.messageId) \/ Falsy(l.req.timestamp) \/ Falsy(l.req.signature))
    /\ l.req.signature[1] = Sign(l.req.messageId[1], l.req.timestamp[1], l.str)
    /\ l.str \in DOMAIN ParseTable

\* the payload of an admitted request
Parsed(l) == ParseTable[l.str]

\* l is an admitted notification of subtype type that names a tenant
NotificationOf(l, type) ==
    /\ Admitted(l)
    /\ l.req.messageType = Some("notification")
    /\ "subscription" \in DOMAIN Parsed(l)
    /\ "type" \in DOMAIN Parsed(l).subscription
    /\ Parsed(l).subscription.type = type
    /\ "event" \in DOMAIN Parsed(l)
    /\ "broadcaster_user_id" \in DOMAIN Parsed(l).event

\* l is an admitted redemption-created notification for a tenant and a reward
RedemptionCreated(l) ==
    /\ NotificationOf(l, AddType)
    /\ "reward" \in DOMAIN Parsed(l).event
    /\ "id" \in DOMAIN Parsed(l).event.reward

\* this step appended exactly one entry to the giveaway of tenant t
AppendedOne(t) ==
    /\ t \in DOMAIN activeGiveaways /\ t \in DOMAIN activeGiveaways'
    /\ Len(activeGiveaways'[t].entries) = Len(activeGiveaways[t].entries) + 1
    /\ SubSeq(activeGiveaways'[t].entries, 1, Len(activeGiveaways[t].entries))
         = activeGiveaways[t].entries
    /\ \A u \in DOMAIN activeGiveaways \ {t} :
         u \in DOMAIN activeGiveaways' /\ activeGiveaways'[u] = activeGiveaways[u]

-----------------------------------------------------------------------------
(* C1.  Handling an admitted redemption-created notification for tenant T  *)
(* and reward R appends an entry to T's giveaway if and only if T has a    *)
(* giveaway, the giveaway is active and its reward id is R; in every other *)
(* case no giveaway changes and no giveaway_entry event is written.        *)
(* The code never reads isActive on this path.                             *)
C1_AppendsIffActiveAndRewardMatches ==
    [][ RedemptionCreated(last') =>
          LET T == Parsed(last').event.broadcaster_user_id
              R == Parsed(last').event.reward.id
          IN  IF /\ T \in DOMAIN activeGiveaways
                 /\ activeGiveaways[T].isActive
                 /\ activeGiveaways[T].rewardId = R
              THEN AppendedOne(T)
              ELSE /\ activeGiveaways' = activeGiveaways
                   /\ last'.sent.type # "giveaway_entry" ]_vars

-----------------------------------------------------------------------------
\* C2: a webhook request that is rejected (a required header missing, a
\* signature that does not match, a body that is not valid JSON) leaves
\* the session map, every giveaway and the connection map unchanged, and
\* no stream is written to.
C2_RejectedRequestChangesNothing ==
    [][ (last'.op = "webhook" /\ ~ Admitted(last')) =>
          /\ userSessions' = userSessions
          /\ sessionOrder' = sessionOrder
          /\ activeGiveaways' = activeGiveaways
          /\ userConnections' = userConnections
          /\ pruned' = pruned
          /\ last'.to = {}
          /\ last'.sent = NoEvent ]_vars

\* a request with a wrong signature was answered 403 while the tenant had
\* a session, a giveaway with an entry and a stream
C2_RejectedWithStatePresent ==
    /\ last.op = "webhook"
    /\ ~ Admitted(last)
    /\ last.status = 403
    /\ "u1" \in DOMAIN userSessions
    /\ "u1" \in DOMAIN activeGiveaways
    /\ activeGiveaways["u1"].entries # << >>
    /\ "u1" \in DOMAIN userConnections
    /\ userConnections["u1"] # {}

-----------------------------------------------------------------------------
\* the request of step l got past the header check and the signature check
PassedVerifier(l) ==
    /\ l.op = "webhook"
    /\ ~ BodyParserMiddleware(l.req.ctype, l.req.raw).err
    /\ l.body \notin {"Missing required headers", "Invalid signature"}

\* C3: for every (message id, timestamp, payload), the payload being the
\* body as it was sent, the verifier admits the request when the signature
\* header is the HMAC of id + timestamp + payload under the shared secret,
\* and rejects it when payload, id, timestamp or signature is anything else.
C3_AdmitsExactlyTheSignedTriple ==
    ( /\ last.op = "webhook"
      /\ ~ Falsy(last.req.messageId)
      /\ ~ Falsy(last.req.timestamp)
      /\ ~ Falsy(last.req.signature) )
    => ( PassedVerifier(last)
         <=> last.req.signature[1] =
               Sign(last.req.messageId[1], last.req.timestamp[1], last.req.raw) )

-----------------------------------------------------------------------------
\* l is an admitted verification request whose payload has a challenge
ChallengeOf(l) ==
    /\ Admitted(l)
    /\ l.req.messageType = Some("webhook_callback_verification")
    /\ "challenge" \in DOMAIN Parsed(l)

\* C4: a webhook_callback_verification request that passes the verifier is
\* answered 200 with the payload's challenge string as the whole body; no
\* map changes and nothing is written to any stream.
C4_ChallengeEchoed ==
    [][ ChallengeOf(last') =>
          /\ last'.status = 200
          /\ last'.body = Parsed(last').challenge
          /\ userSessions' = userSessions
          /\ activeGiveaways' = activeGiveaways
          /\ userConnections' = userConnections
          /\ pruned' = pruned
          /\ last'.to = {}
          /\ last'.sent = NoEvent ]_vars

\* the challenge xyz123 was echoed while the tenant had a giveaway and a
\* stream to broadcast to
C4_ChallengeAnswered ==
    /\ ChallengeOf(last)
    /\ last.status = 200
    /\ last.body = "xyz123"
    /\ "u1" \in DOMAIN activeGiveaways
    /\ "u1" \in DOMAIN userConnections
    /\ userConnections["u1"] # {}

-----------------------------------------------------------------------------
\* l is an admitted revocation that names a subscription id
RevocationOf(l) ==
    /\ Admitted(l)
    /\ l.req.messageType = Some("revocation")
    /\ "subscription" \in DOMAIN Parsed(l)
    /\ "id" \in DOMAIN Parsed(l).subscription

\* the streams registered for tenant T
Registered(T) == IF T \in DOMAIN userConnections THEN userConnections[T] ELSE {}

\* C5: an admitted revocation naming the subscription id stored in tenant
\* T's session writes a subscription_revoked event carrying the message's
\* reason to every stream registered for T (a stream whose write throws is
\* dropped instead), and writes to no stream of any other tenant.
C5_RevocationReachesTheTenantOnly ==
    [][ RevocationOf(last') =>
          \A T \in DOMAIN userSessions :
            userSessions[T].subscriptionId = Some(Parsed(last').subscription.id) =>
              LET failed == pruned' \ pruned IN
              /\ last'.to = Registered(T) \ failed
              /\ failed \subseteq Registered(T)
              /\ Registered(T) # {} =>
                    last'.sent = [type |-> "subscription_revoked",
                                  reason |-> Parsed(last').subscription.status]
              /\ \A c \in last'.to \cup failed : streams[c] = T ]_vars

\* the revocation of u1's subscription was written to a stream of u1 while
\* u2, who has a subscription of its own, had a stream registered
C5_RevokedWithOtherTenantListening ==
    /\ RevocationOf(last)
    /\ "u1" \in DOMAIN userSessions
    /\ userSessions["u1"].subscriptionId = Some(Parsed(last).subscription.id)
    /\ "u2" \in DOMAIN userSessions
    /\ userSessions["u2"].subscriptionId # None
    /\ last.to # {}
    /\ last.sent.type = "subscription_revoked"
    /\ Registered("u2") # {}

-----------------------------------------------------------------------------
\* C6: a stream whose write throws during a broadcast is removed from the
\* connection map in that same pass, and from then on nothing is written
\* to it: no broadcast and no heartbeat.
C6_PrunedStreamIsLeftAlone ==
    [][ /\ \A c \in pruned' : \A u \in DOMAIN userConnections' :
              c \notin userConnections'[u]
        /\ \A c \in pruned : c \notin last'.to ]_vars

-----------------------------------------------------------------------------
\* C7: a webhook step leaves the entries of every giveaway as they were,
\* or, being a redemption-created notification, appends that notification's
\* entry behind the entries already stored; a redemption-updated
\* notification changes no giveaway at all.
C7_EntriesInArrivalOrder ==
    [][ last'.op = "webhook" =>
          /\ DOMAIN activeGiveaways' = DOMAIN activeGiveaways
          /\ \A T \in DOMAIN activeGiveaways :
                \/ activeGiveaways'[T] = activeGiveaways[T]
                \/ /\ RedemptionCreated(last')
                   /\ Parsed(last').event.broadcaster_user_id = T
                   /\ activeGiveaways'[T] =
                        [activeGiveaways[T] EXCEPT
                           !.entries = Append(@, EntryOf(Parsed(last').event))]
          /\ NotificationOf(last', UpdateType) =>
                activeGiveaways' = activeGiveaways ]_vars

\* a redemption-updated notification for red-1 arrived when u1's giveaway
\* held the entry of red-1 followed by the entry of red-2
C7_UpdateAfterTwoEntries ==
    /\ NotificationOf(last, UpdateType)
    /\ Parsed(last).event.broadcaster_user_id = "u1"
    /\ Parsed(last).event.id = "red-1"
    /\ "u1" \in DOMAIN activeGiveaways
    /\ Len(activeGiveaways["u1"].entries) = 2
    /\ activeGiveaways["u1"].entries[1].redemption_id = "red-1"
    /\ activeGiveaways["u1"].entries[2].redemption_id = "red-2"

-----------------------------------------------------------------------------
\* s is an initial segment of t
IsPrefix(s, t) == Len(s) <= Len(t) /\ SubSeq(t, 1, Len(s)) = s

\* C8 as stated: over provisioning, start, stop and webhook steps, every
\* giveaway stays and its entries only grow at the end, also when a reward
\* is provisioned again for the same tenant.
C8_EntriesOnlyGrow ==
    [][ \A T \in DOMAIN activeGiveaways :
          /\ T \in DOMAIN activeGiveaways'
          /\ IsPrefix(activeGiveaways[T].entries, activeGiveaways'[T].entries) ]_vars

\* C8 amended: every giveaway stays and its entries only grow at the end
\* over start, stop and webhook steps; a successful provisioning for a
\* tenant that has a giveaway replaces it by an inactive one without
\* entries for the new reward.
C8_EntriesOnlyGrowUntilProvisionedAgain ==
    [][ \A T \in DOMAIN activeGiveaways :
          /\ T \in DOMAIN activeGiveaways'
          /\ \/ IsPrefix(activeGiveaways[T].entries, activeGiveaways'[T].entries)
             \/ /\ last'.op = "create" /\ last'.user = T /\ last'.status = 200
                /\ activeGiveaways'[T] =
                      [isActive |-> FALSE, entries |-> << >>,
                       rewardId |-> last'.json.reward_id] ]_vars

\* the giveaway was stopped with its two entries in place, after having
\* been started
C8_StoppedWithEntriesKept ==
    /\ last.op = "action" /\ last.status = 200 /\ last.json = [enabled |-> FALSE]
    /\ "u1" \in DOMAIN activeGiveaways
    /\ ~ activeGiveaways["u1"].isActive
    /\ Len(activeGiveaways["u1"].entries) = 2

-----------------------------------------------------------------------------
RECURSIVE CostSum(_)
\* the sum of the costs of entries
CostSum(entries) ==
    IF entries = << >> THEN 0
    ELSE Head(entries).reward_cost + CostSum(Tail(entries))

\* C9: a stats read of a tenant that has a giveaway returns the number of
\* stored entries, the number of distinct participants (participant ids)
\* among them and the sum of their costs: 1, 1 and 500 after one redemption
\* of cost 500.
C9_StatsCountEntriesParticipantsCost ==
    (last.op = "stats" /\ last.status = 200) =>
        LET entries == activeGiveaways[last.user].entries IN
        /\ last.json.totalEntries = Len(entries)
        /\ last.json.uniqueUsers =
              Cardinality({entries[i].user_id : i \in DOMAIN entries})
        /\ last.json.totalPointsSpent = CostSum(entries)
        /\ (Len(entries) = 1 /\ entries[1].reward_cost = 500) =>
              /\ last.json.totalEntries = 1
              /\ last.json.uniqueUsers = 1
              /\ last.json.totalPointsSpent = 500

-----------------------------------------------------------------------------
\* C10: a webhook request that lacks the message id, the timestamp, the
\* signature or the message type is answered 400; one that has all four
\* and a signature that is not the signature of its body is answered 403;
\* one that has all four, a good signature and a body that is not valid
\* JSON is answered 400.
C10_RefusalStatusCodes ==
    last.op = "webhook" =>
        LET req == last.req
            missing == \/ Falsy(req.messageId) \/ Falsy(req.timestamp)
                       \/ Falsy(req.signature) \/ Falsy(req.messageType)
            signed == req.signature[1] =
                        Sign(req.messageId[1], req.timestamp[1], req.raw)
            json == req.raw \in DOMAIN ParseTable \cup DOMAIN ArrayTable
        IN  /\ missing => last.status = 400
            /\ (~ missing /\ ~ signed) => last.status = 403
            /\ (~ missing /\ signed /\ ~ json) => last.status = 400

-----------------------------------------------------------------------------
\* the positions of the calls of name on stream c in a shutdown's calls
CallsOn(calls, name, c) ==
    {i \in DOMAIN calls : calls[i] = Call(name, c)}

\* C11: when the process shuts down, every stream that is open at that
\* moment (its close event has not fired and a write to it does not throw)
\* is written the server_shutdown event and is then ended, the write coming
\* before the end.
C11_ShutdownReachesEveryOpenStream ==
    [][ (shutdown = None /\ shutdown' # None) =>
          LET calls == shutdown'[1] IN
          \A c \in listening :
            CallsOn(calls, "write throws", c) = {} =>
              /\ last'.sent.type = "server_shutdown"
              /\ c \in last'.to
              /\ CallsOn(calls, "write", c) # {}
              /\ CallsOn(calls, "end", c) # {}
              /\ \A i \in CallsOn(calls, "write", c), j \in CallsOn(calls, "end", c) :
                    i < j ]_vars

-----------------------------------------------------------------------------
\* the subtypes the service is specified to know
RecognizedTypes == {AddType, UpdateType, FollowType}

\* l is an admitted notification of a subtype outside RecognizedTypes
UnrecognizedNotification(l) ==
    /\ Admitted(l)
    /\ l.req.messageType = Some("notification")
    /\ "subscription" \in DOMAIN Parsed(l)
    /\ "type" \in DOMAIN Parsed(l).subscription
    /\ Parsed(l).subscription.type \notin RecognizedTypes

\* C12: an admitted notification of an unrecognized subtype is answered
\* 200, changes no map and writes to no stream.
C12_UnrecognizedSubtypeDropped ==
    [][ UnrecognizedNotification(last') =>
          /\ last'.status = 200
          /\ last'.body = "OK"
          /\ userSessions' = userSessions
          /\ activeGiveaways' = activeGiveaways
          /\ userConnections' = userConnections
          /\ pruned' = pruned
          /\ last'.to = {}
          /\ last'.sent = NoEvent ]_vars

\* a notification of subtype channel.unknown for u1 was answered 200 while
\* u1 had a session, a giveaway and a stream
C12_UnknownSubtypeWithStatePresent ==
    /\ UnrecognizedNotification(last)
    /\ Parsed(last).subscription.type = "channel.unknown"
    /\ last.status = 200
    /\ "u1" \in DOMAIN userSessions
    /\ "u1" \in DOMAIN activeGiveaways
    /\ Registered("u1") # {}

-----------------------------------------------------------------------------
\* C13: an admitted redemption-updated notification for tenant T writes a
\* redemption-status-changed event to the streams registered for T and
\* leaves every giveaway as it was.
C13_UpdateIsBroadcast ==
    [][ NotificationOf(last', UpdateType) =>
          LET T == Parsed(last').event.broadcaster_user_id IN
          /\ activeGiveaways' = activeGiveaways
          /\ Registered(T) # {} =>
                /\ last'.sent.type \in {"redemption_status_changed",
                                        "redemption-status-changed"}
                /\ last'.to = Registered(T) \ (pruned' \ pruned) ]_vars

-----------------------------------------------------------------------------
\* l is an admitted notification or revocation whose payload is a JSON
\* object without the subscription object, or a notification without the
\* event object
LacksStructure(l) ==
    /\ Admitted(l)
    /\ \/ /\ l.req.messageType \in {Some("notification"), Some("revocation")}
          /\ "subscription" \notin DOMAIN Parsed(l)
       \/ /\ l.req.messageType = Some("notification")
          /\ "event" \notin DOMAIN Parsed(l)

\* C14: a correctly signed request whose body is valid JSON but lacks the
\* subscription or event object is answered with a reject status, not with
\* a server error, and changes no map.
C14_MalformedPayloadRejected ==
    [][ LacksStructure(last') =>
          /\ last'.status \in {400, 403}
          /\ userSessions' = userSessions
          /\ activeGiveaways' = activeGiveaways
          /\ userConnections' = userConnections ]_vars

-----------------------------------------------------------------------------
\* the tenants whose giveaway this step changed
ChangedGiveaways ==
    {T \in DOMAIN activeGiveaways :
        T \notin DOMAIN activeGiveaways' \/ activeGiveaways'[T] # activeGiveaways[T]}

-----------------------------------------------------------------------------
\* l is a redemption-created notification for a tenant that has a session
\* and a giveaway for the reward, whose redemption id is already stored
RepeatedDelivery(l) ==
    /\ RedemptionCreated(l)
    /\ "id" \in DOMAIN Parsed(l).event
    /\ LET T == Parsed(l).event.broadcaster_user_id IN
       /\ T \in DOMAIN activeGiveaways
       /\ T \in DOMAIN userSessions
       /\ activeGiveaways[T].rewardId = Parsed(l).event.reward.id
       /\ \E i \in DOMAIN activeGiveaways[T].entries :
            activeGiveaways[T].entries[i].redemption_id = Parsed(l).event.id

-----------------------------------------------------------------------------
\* where the giveaway of tenant T is in the map giveaways
Phase(giveaways, T) ==
    IF T \notin DOMAIN giveaways THEN "uninitialized"
    ELSE IF giveaways[T].isActive THEN "active" ELSE "provisioned-inactive"

\* the step answered 200 to operation op of tenant T
Succeeded(l, op, T) == l.op = op /\ l.user = T /\ l.status = 200

\* a successful start or stop of a tenant that has a giveaway leaves the
\* giveaway with the flag that was asked for
StartAndStopTakeEffect ==
    \A T \in DOMAIN activeGiveaways :
        Succeeded(last', "action", T) =>
            /\ T \in DOMAIN activeGiveaways'
            /\ activeGiveaways'[T].isActive = last'.json.enabled

\* C17 as stated: a giveaway moves only from uninitialized to
\* provisioned-inactive by provisioning, from provisioned-inactive to active
\* by a start and from active to provisioned-inactive by a stop; no webhook
\* message moves it; a start and a stop take effect in every provisioned
\* state.
C17_LifecycleTransitions ==
    [][ /\ \A T \in Users :
            LET a == Phase(activeGiveaways, T)
                b == Phase(activeGiveaways', T)
            IN  a # b =>
                  \/ /\ a = "uninitialized" /\ b = "provisioned-inactive"
                     /\ Succeeded(last', "create", T)
                  \/ /\ a = "provisioned-inactive" /\ b = "active"
                     /\ Succeeded(last', "action", T) /\ last'.json.enabled
                  \/ /\ a = "active" /\ b = "provisioned-inactive"
                     /\ Succeeded(last', "action", T) /\ ~ last'.json.enabled
        /\ StartAndStopTakeEffect ]_vars

\* C17 amended: besides the three moves above, a provisioning of a tenant
\* whose giveaway is active moves it to provisioned-inactive, and the
\* administrative cleanup moves it to uninitialized; no webhook message
\* moves it; a start and a stop take effect in every provisioned state.
C17_LifecycleTransitionsWithReprovisioning ==
    [][ /\ \A T \in Users :
            LET a == Phase(activeGiveaways, T)
                b == Phase(activeGiveaways', T)
            IN  a # b =>
                  \/ /\ a = "uninitialized" /\ b = "provisioned-inactive"
                     /\ Succeeded(last', "create", T)
                  \/ /\ a = "provisioned-inactive" /\ b = "active"
                     /\ Succeeded(last', "action", T) /\ last'.json.enabled
                  \/ /\ a = "active" /\ b = "provisioned-inactive"
                     /\ \/ Succeeded(last', "action", T) /\ ~ last'.json.enabled
                        \/ Succeeded(last', "create", T)
                  \/ /\ b = "uninitialized"
                     /\ Succeeded(last', "cleanup", T)
        /\ last'.op = "webhook" =>
              \A T \in Users : Phase(activeGiveaways', T) = Phase(activeGiveaways, T)
        /\ StartAndStopTakeEffect ]_vars

\* the giveaway of u1, provisioned a second time (reward r2), was started
C17_StartedAfterSecondProvisioning ==
    /\ Succeeded(last, "action", "u1")
    /\ last.json.enabled
    /\ "u1" \in DOMAIN activeGiveaways
    /\ activeGiveaways["u1"].rewardId = "r2"
    /\ activeGiveaways["u1"].isActive

-----------------------------------------------------------------------------
\* the streams whose close event has fired, given the streams opened and
\* those still listening
Closed(opened, open) == DOMAIN opened \ open

\* C18: once the close event of a stream has fired, the stream is in no
\* bucket of the connection map, its heartbeat timer is not running, and no
\* later step writes to it.
C18_ClosedStreamIsGone ==
    [][ /\ \A c \in Closed(streams', listening') :
              /\ \A u \in DOMAIN userConnections' : c \notin userConnections'[u]
              /\ c \notin heartbeats'
        /\ \A c \in Closed(streams, listening) :
              /\ c \notin last'.to
              /\ c \notin pruned' \ pruned
              /\ shutdown' # shutdown =>
                    \A i \in DOMAIN shutdown'[1] : shutdown'[1][i].stream # c ]_vars

\* stream 1 was closed while it was registered with its timer running, and
\* afterwards a revocation was broadcast to stream 2 of the same tenant
C18_BroadcastAfterClose ==
    /\ Len(streams) = 2
    /\ streams[1] = streams[2]
    /\ 1 \notin listening
    /\ 1 \notin pruned
    /\ last.op = "webhook"
    /\ last.sent.type = "subscription_revoked"
    /\ last.to = {2}

-----------------------------------------------------------------------------
\* C19: a broadcast pass for tenant T writes the event exactly once to
\* every stream registered for T whose write does not throw, wherever in
\* the bucket the streams whose write throws are; those are dropped from
\* the bucket and the pass goes on.
C19_FailingWriteIsIsolated ==
    [][ /\ \A T \in DOMAIN userConnections :
            \A fail \in SUBSET userConnections[T] :
              LET calls == writeAll(Ascending(userConnections[T]), fail) IN
              \A c \in userConnections[T] \ fail :
                 Cardinality({i \in DOMAIN calls : calls[i] = Call("write", c)}) = 1
        /\ (last'.op = "webhook" /\ last'.sent # NoEvent) =>
              \E T \in DOMAIN userConnections :
                 LET failed == pruned' \ pruned IN
                 /\ failed \subseteq userConnections[T]
                 /\ last'.to = userConnections[T] \ failed
                 /\ userConnections'[T] = userConnections[T] \ failed ]_vars

\* of two streams of one tenant the first was dropped by a broadcast pass
\* and the second was written the revocation
C19_SecondWrittenFirstDropped ==
    /\ Len(streams) = 2
    /\ streams[1] = streams[2]
    /\ 1 \in pruned
    /\ 1 \in listening
    /\ last.op = "webhook"
    /\ last.sent.type = "subscription_revoked"
    /\ last.to = {2}

\* C20: under fair scheduling of the timers, a stream that stays open (it is
\* never closed and no heartbeat write to it throws) receives a heartbeat
\* again and again, whatever the dispatcher does in between
C20_OpenStreamKeepsReceivingHeartbeats ==
    \A res \in 1..MaxStreams :
        \/ [](res \notin DOMAIN streams)
        \/ <>(res \in DOMAIN streams /\ res \notin listening)
        \/ <>(last.op = "heartbeat" /\ last.stream = res /\ last.to = {})
        \/ []<>(last.op = "heartbeat" /\ last.stream = res /\ last.to = {res})

\* a heartbeat reaches a stream that a broadcast of the dispatcher has
\* failed to write to
C20_HeartbeatAfterFailedBroadcast ==
    /\ last.op = "heartbeat"
    /\ last.to = {1}
    /\ 1 \in pruned
    /\ 1 \in listening

-----------------------------------------------------------------------------
\* the step just taken concerns tenant T: a notification whose event names
\* T as the broadcaster, a revocation of the subscription stored in T's
\* session, or the opening or the close of a stream of T
Concerns(T) ==
    \/ /\ Admitted(last')
       /\ last'.req.messageType = Some("notification")
       /\ "event" \in DOMAIN Parsed(last')
       /\ "broadcaster_user_id" \in DOMAIN Parsed(last').event
       /\ Parsed(last').event.broadcaster_user_id = T
    \/ /\ RevocationOf(last')
       /\ T \in DOMAIN userSessions
       /\ userSessions[T].subscriptionId = Some(Parsed(last').subscription.id)
    \/ /\ last'.op \in {"open", "close"}
       /\ last'.user = T

\* key k is in both maps with one value, or in neither
SameAt(m, n, k) ==
    /\ (k \in DOMAIN m) <=> (k \in DOMAIN n)
    /\ k \in DOMAIN m => m[k] = n[k]

\* the step just taken left tenant U alone: its session, its giveaway and
\* its bucket are what they were, and no write was made to a stream
\* registered for U
Untouched(U) ==
    /\ SameAt(userSessions, userSessions', U)
    /\ SameAt(activeGiveaways, activeGiveaways', U)
    /\ SameAt(userConnections, userConnections', U)
    /\ last'.to \cap Registered(U) = {}
    /\ (pruned' \ pruned) \cap Registered(U) = {}

\* C21: a webhook message or a stream event that concerns tenant T changes
\* no session, giveaway or bucket of another tenant and writes to no stream
\* registered for another tenant; and whatever a webhook message is, it
\* touches the state and the streams of one tenant at most.
C21_TenantsAreIsolated ==
    [][ /\ \A T \in Users : Concerns(T) => \A U \in Users \ {T} : Untouched(U)
        /\ last'.op = "webhook" =>
              \E T \in Users : \A U \in Users \ {T} : Untouched(U) ]_vars

\* the revocation of u2's subscription was written to u2's stream while
\* u1, whose session is the older one, had a giveaway with an entry and a
\* stream registered
C21_RevokedNextToOlderTenant ==
    /\ RevocationOf(last)
    /\ "u2" \in DOMAIN userSessions
    /\ userSessions["u2"].subscriptionId = Some(Parsed(last).subscription.id)
    /\ last.to # {}
    /\ last.to \subseteq Registered("u2")
    /\ sessionOrder = <<"u1", "u2">>
    /\ "u1" \in DOMAIN activeGiveaways
    /\ activeGiveaways["u1"].entries # << >>
    /\ Registered("u1") # {}

-----------------------------------------------------------------------------
\* C22: an admitted follow notification for tenant T writes an event tagged
\* with the subtype to the streams registered for T and leaves every
\* giveaway as it was.
C22_OtherSubtypeIsForwarded ==
    [][ NotificationOf(last', FollowType) =>
          LET T == Parsed(last').event.broadcaster_user_id IN
          /\ activeGiveaways' = activeGiveaways
          /\ Registered(T) # {} =>
                /\ last'.sent # NoEvent
                /\ FollowType \in
                     {last'.sent[f] : f \in DOMAIN last'.sent \cap
                         {"type", "event_type", "subscription_type"}}
                /\ last'.to = Registered(T) \ (pruned' \ pruned) ]_vars

-----------------------------------------------------------------------------
\* C23: handling an admitted revocation deletes and changes nothing that is
\* stored: every session, with its reward id and its subscription id, the
\* order of the sessions, and every giveaway, with its flag, its reward id
\* and its entries, are after the step what they were before it.
C23_RevocationDeletesNothing ==
    [][ (Admitted(last') /\ last'.req.messageType = Some("revocation")) =>
          /\ userSessions' = userSessions
          /\ sessionOrder' = sessionOrder
          /\ activeGiveaways' = activeGiveaways ]_vars

\* the revocation of u1's stored subscription was announced on u1's
\* stream while u1's giveaway was running with an entry in it
C23_RevokedWhileRunning ==
    /\ RevocationOf(last)
    /\ last.status = 200
    /\ last.sent.type = "subscription_revoked"
    /\ last.to # {}
    /\ "u1" \in DOMAIN userSessions
    /\ userSessions["u1"].subscriptionId = Some(Parsed(last).subscription.id)
    /\ userSessions["u1"].rewardId # None
    /\ "u1" \in DOMAIN activeGiveaways
    /\ activeGiveaways["u1"].isActive
    /\ activeGiveaways["u1"].entries # << >>

-----------------------------------------------------------------------------
\* C24: in every reachable state the streams registered in userConnections
\* are exactly the streams whose heartbeat timer is running.
C24_RegisteredIffTimerRunning ==
    UNION {userConnections[u] : u \in DOMAIN userConnections} = heartbeats

-----------------------------------------------------------------------------
\* C25: in every reachable state every key of userConnections maps to a
\* non-empty set of streams.
C25_NoEmptyBucket ==
    \A u \in DOMAIN userConnections : userConnections[u] # {}

-----------------------------------------------------------------------------
\* C26: without the cleanup, after every step a tenant that has a giveaway
\* has a session whose reward id is the giveaway's reward id, and a tenant
\* whose session held a subscription id before the step still has a
\* session that holds one.
C26_SessionAgreesWithGiveaway ==
    [][ /\ \A T \in DOMAIN activeGiveaways' :
              /\ T \in DOMAIN userSessions'
              /\ userSessions'[T].rewardId = Some(activeGiveaways'[T].rewardId)
        /\ \A T \in DOMAIN userSessions :
              userSessions[T].subscriptionId # None =>
                 /\ T \in DOMAIN userSessions'
                 /\ userSessions'[T].subscriptionId # None ]_vars

=============================================================================
